---- MODULE Spec2Model ----
(***************************************************************************)
(* QR code datastore (QRCodesDatastore) and destination URL helpers of     *)
(* src/web/shopify.ts.                                                     *)
(*                                                                         *)
(* Every store method is an async function that hands one SQL statement    *)
(* to sqlite3 (Database.all) and continues in the completion callback.     *)
(* A call is two steps: the call (the code up to the await, statement      *)
(* issued) and the completion (sqlite3 runs the statement or fails it,     *)
(* the callback settles the promise and the code after the await runs).    *)
(* The code after an await reads only the caller's locals and the          *)
(* callback's arguments, so it is one step with the statement it waits     *)
(* for.  Statements of different calls complete in any order; one          *)
(* statement is atomic.                                                    *)
(*                                                                         *)
(* Calls in progress are told apart only by their arguments and are kept   *)
(* as a bag.  handleCodeScan takes the record the most recent read has     *)
(* returned: the call step touches nothing shared, so a scan started later *)
(* with an older record behaves as the same scan started right after its   *)
(* read.                                                                   *)
(*                                                                         *)
(* Strings that the code only copies or concatenates are TLA+ strings.     *)
(* Strings that the code parses (shopDomain by new URL, variantId by the   *)
(* regular expression) are sequences of tokens, so that parsing is         *)
(* computed and can fail.  createdAt is a storage-side default that no     *)
(* modelled operation reads and is left out of the rows.                   *)
(***************************************************************************)
EXTENDS Integers, Sequences, FiniteSets, Bags, TLC

VARIABLES
  loaded,        \* the module body (line 12) has run
  instance,      \* QRCodesDatastore.instance is set (with its db handle)
  tableExists,   \* sqlite_schema has a table named qr_codes
  table,         \* the rows of qr_codes, by id
  seq,           \* sqlite_sequence entry of qr_codes (AUTOINCREMENT)
  calls,         \* the calls in progress (a bag: their statements are pending)
  last,          \* the call that returned most recently and what it returned
  hist,          \* history of what the calls have observed
  ncalls         \* number of calls started

vars == <<loaded, instance, tableExists, table, seq, calls, last, hist, ncalls>>

(***************************************************************************)
(* Bounds                                                                  *)
(***************************************************************************)
MaxInFlight == 2
MaxId    == 2
MaxCalls == 4

Ids   == 1..MaxId

(***************************************************************************)
(* Program constants and external configuration                            *)
(***************************************************************************)
DEFAULT_PURCHASE_QUANTITY == 1
qrCodesTableName == "qr_codes"
hostScheme == "https"
hostName == "app.example"

(***************************************************************************)
(* Input domains                                                           *)
(***************************************************************************)
GidPrefix == "gid://shopify/ProductVariant/"
Digits == {"1", "2"}

ShopDomains == { <<"https://", "shop.example">>, <<"shop.example">> }
VariantIds  == { <<GidPrefix, "1", "2">>, <<"x">>, <<GidPrefix>>,
                 <<"x", GidPrefix, "1">>, <<GidPrefix, "2", "x">> }
Titles        == {"A", "B"}
DiscountCodes == {"", "SAVE10"}
Destinations  == {"product", "checkout", "banana"}

AllFields ==
  [shopDomain: ShopDomains, title: Titles, productId: {"gid://shopify/Product/7"},
   variantId: VariantIds, handle: {"mug"}, discountId: {"d1"},
   discountCode: DiscountCodes, destination: Destinations]

SampleFields ==
  { f \in AllFields : /\ f.shopDomain = <<"https://", "shop.example">>
                      /\ f.variantId = <<GidPrefix, "1", "2">>
                      /\ f.discountCode = ""
                      /\ f.title = "A"
                      /\ f.destination \in {"product", "banana"} }

(***************************************************************************)
(* Strings                                                                 *)
(***************************************************************************)
RECURSIVE Str(_)
Str(toks) == IF toks = <<>> THEN "" ELSE Head(toks) \o Str(Tail(toks))

(***************************************************************************)
(* URL (WHATWG URL as used by the code: parse, pathname, searchParams,     *)
(* toString)                                                               *)
(***************************************************************************)
Schemes == {"https://", "http://"}

URLValid(toks) == Len(toks) >= 2 /\ toks[1] \in Schemes /\ toks[2] # ""

URLParse(toks) ==
  [scheme   |-> toks[1],
   host     |-> toks[2],
   pathname |-> IF Len(toks) >= 3 THEN toks[3] ELSE "/",
   search   |-> IF Len(toks) >= 4 THEN toks[4] ELSE ""]

URLTokens(u) ==
  IF u.search = "" THEN <<u.scheme, u.host, u.pathname>>
  ELSE <<u.scheme, u.host, u.pathname, u.search>>

URLToString(u) == Str(URLTokens(u))

SearchAppend(u, name, value) ==
  [u EXCEPT !.search = IF u.search = "" THEN "?" \o name \o "=" \o value
                       ELSE u.search \o "&" \o name \o "=" \o value]

(***************************************************************************)
(* variantId.replace(/gid:\/\/shopify\/ProductVariant\/([0-9]+)/, "$1")    *)
(***************************************************************************)
RECURSIVE DigitRun(_, _)
DigitRun(toks, i) ==
  IF i <= Len(toks) /\ toks[i] \in Digits THEN 1 + DigitRun(toks, i + 1) ELSE 0

MatchAt(toks, i) == toks[i] = GidPrefix /\ DigitRun(toks, i + 1) >= 1

Matches(toks) == { i \in 1..Len(toks) : MatchAt(toks, i) }

FirstMatch(toks) == CHOOSE i \in Matches(toks) : \A j \in Matches(toks) : i <= j

ReplaceVariantId(toks) ==
  IF Matches(toks) = {} THEN toks
  ELSE LET i == FirstMatch(toks)
           n == DigitRun(toks, i + 1)
       IN  SubSeq(toks, 1, i - 1) \o SubSeq(toks, i + 1, i + n)
             \o SubSeq(toks, i + n + 1, Len(toks))

(***************************************************************************)
(* productViewURL, productCheckoutURL                                      *)
(***************************************************************************)
productViewURL(host, productHandle, discountCode) ==
  LET url == URLParse(host)
      productPath == "/products/" \o productHandle
      encodedPath == "%2Fproducts%2F" \o productHandle
  IN  IF discountCode # ""
      THEN URLToString(SearchAppend([url EXCEPT !.pathname = "/discount/" \o discountCode],
                                    "redirect", encodedPath))
      ELSE URLToString([url EXCEPT !.pathname = productPath])

productCheckoutURL(host, variantId, quantity, discountCode) ==
  LET url == URLParse(host)
      id  == Str(ReplaceVariantId(variantId))
      u1  == [url EXCEPT !.pathname = "/cart/" \o id \o ":" \o ToString(quantity)]
  IN  IF discountCode # ""
      THEN URLToString(SearchAppend(u1, "discount", discountCode))
      ELSE URLToString(u1)

goToProductView(url, qrcode) ==
  productViewURL(URLTokens(url), qrcode.handle, qrcode.discountCode)

goToProductCheckout(url, qrcode) ==
  productCheckoutURL(URLTokens(url), qrcode.variantId, DEFAULT_PURCHASE_QUANTITY,
                     qrcode.discountCode)

(***************************************************************************)
(* Rows of qr_codes and the SQL statements of the store methods            *)
(***************************************************************************)
NoSuchTable   == "SQLITE_ERROR: no such table: qr_codes"
AlreadyExists == "SQLITE_ERROR: table qr_codes already exists"
StorageFault  == "SQLITE_IOERR: disk I/O error"
NoInstance    == "TypeError: Cannot read properties of undefined (reading 'db')"
InvalidURL    == "TypeError: Invalid URL"

\* INSERT ... VALUES (?, ?, ?, ?, ?, ?, ?, ?, 0)
insertRow(id, f) ==
  [id |-> id, shopDomain |-> f.shopDomain, title |-> f.title,
   productId |-> f.productId, variantId |-> f.variantId, handle |-> f.handle,
   discountId |-> f.discountId, discountCode |-> f.discountCode,
   destination |-> f.destination, scans |-> 0]

\* variant: id INTEGER PRIMARY KEY without AUTOINCREMENT (largest rowid in the table + 1)
newRowId_MaxRowid(tbl, sq) ==
  IF DOMAIN tbl = {} THEN 1
  ELSE (CHOOSE m \in DOMAIN tbl : \A j \in DOMAIN tbl : j <= m) + 1

\* id INTEGER PRIMARY KEY AUTOINCREMENT: one more than the largest id ever used
newRowId(tbl, sq) == sq + 1

\* variant: the full replace also writes scans
updateRow_ResetScans(row, f) ==
  [row EXCEPT !.title = f.title, !.productId = f.productId,
              !.variantId = f.variantId, !.handle = f.handle,
              !.discountId = f.discountId, !.discountCode = f.discountCode,
              !.destination = f.destination, !.scans = 0]

\* UPDATE ... SET title = ?, productId = ?, ... destination = ? WHERE id = ?
updateRow(row, f) ==
  [row EXCEPT !.title = f.title, !.productId = f.productId,
              !.variantId = f.variantId, !.handle = f.handle,
              !.discountId = f.discountId, !.discountCode = f.discountCode,
              !.destination = f.destination]

\* variant: read-modify-write in application code (SET scans = <qrcode.scans + 1>)
increaseRow_ReadModifyWrite(row, qrcode) == [row EXCEPT !.scans = qrcode.scans + 1]

\* UPDATE ... SET scans = scans + 1 WHERE id = ?
increaseRow(row, qrcode) == [row EXCEPT !.scans = row.scans + 1]

\* variant: WHERE id <= ?
deleteWhere_LessEqual(tbl, id) == [i \in {j \in DOMAIN tbl : j > id} |-> tbl[i]]

\* DELETE FROM qr_codes WHERE id = ?
deleteWhere(tbl, id) == [i \in DOMAIN tbl \ {id} |-> tbl[i]]

\* SELECT * FROM qr_codes WHERE id = ?
selectById(tbl, id) == IF id \in DOMAIN tbl THEN <<tbl[id]>> ELSE <<>>

\* SELECT * FROM qr_codes WHERE shopDomain = ? (rows in rowid order)
RECURSIVE selectByShop(_, _, _)
selectByShop(tbl, shop, i) ==
  IF i > MaxId + 1 THEN <<>>
  ELSE (IF i \in DOMAIN tbl /\ tbl[i].shopDomain = shop THEN <<tbl[i]>> ELSE <<>>)
         \o selectByShop(tbl, shop, i + 1)

(***************************************************************************)
(* sqlite3 runs one statement: the new database and the callback's         *)
(* (err, rows)                                                             *)
(***************************************************************************)
Unchanged(err, rows) ==
  [tableExists |-> tableExists, table |-> table, seq |-> seq, err |-> err, rows |-> rows]

WithTable(tbl, rows) ==
  [tableExists |-> tableExists, table |-> tbl, seq |-> seq, err |-> "", rows |-> rows]

Storage(c) ==
  IF c.sql = "hasTable"
    THEN Unchanged("", IF tableExists THEN <<[name |-> qrCodesTableName]>> ELSE <<>>)
  ELSE IF c.sql = "createTable"
    THEN IF tableExists THEN Unchanged(AlreadyExists, <<>>)
         ELSE [tableExists |-> TRUE, table |-> table, seq |-> seq, err |-> "", rows |-> <<>>]
  ELSE IF ~tableExists THEN Unchanged(NoSuchTable, <<>>)
  ELSE IF c.sql = "insert"
    THEN LET id == newRowId(table, seq)
         IN  [tableExists |-> TRUE,
              table |-> [i \in DOMAIN table \cup {id} |->
                           IF i = id THEN insertRow(id, c.qr[1]) ELSE table[i]],
              seq |-> id, err |-> "", rows |-> <<[id |-> id]>>]
  ELSE IF c.sql = "update"
    THEN WithTable([i \in DOMAIN table |->
                      IF i = c.id THEN updateRow(table[i], c.qr[1]) ELSE table[i]], <<>>)
  ELSE IF c.sql = "selectShop" THEN Unchanged("", selectByShop(table, c.shop, 1))
  ELSE IF c.sql = "selectId" THEN Unchanged("", selectById(table, c.id))
  ELSE IF c.sql = "delete" THEN WithTable(deleteWhere(table, c.id), <<>>)
  ELSE \* "increase"
       WithTable([i \in DOMAIN table |->
                    IF i = c.id THEN increaseRow(table[i], c.qr[1]) ELSE table[i]], <<>>)

(***************************************************************************)
(* Calls                                                                   *)
(***************************************************************************)
NoRet == [kind |-> "none", val |-> <<>>]
Ret(kind, val) == [kind |-> kind, val |-> val]

NoLast == [op |-> "none", id |-> 0, qr |-> <<>>, ret |-> NoRet]

Returns(c, ret) == [op |-> c.op, id |-> c.id, qr |-> c.qr, ret |-> ret]

\* __query: hand the statement to instance.db.all; the promise settles in
\* the callback.  Without an instance the executor throws, the promise is
\* rejected with that error and so is the calling method.  done is the
\* statement of the same call that has just completed, if any.
query(inst, done, c, sql) ==
  IF inst
  THEN calls' = (calls (-) done) (+) SetToBag({[c EXCEPT !.sql = sql]})
         /\ UNCHANGED last
  ELSE calls' = calls (-) done
         /\ last' = Returns(c, Ret("throw", <<NoInstance>>))

Begin(op, id, qr, shop) == [op |-> op, sql |-> "none", id |-> id, qr |-> qr, shop |-> shop]

InFlight == BagToSet(calls)

\* a caller can start one more call
Free == BagCardinality(calls) < MaxInFlight

Pending(c, op, sql) == c \in InFlight /\ c.op = op /\ c.sql = sql

\* the callback's (err, rows) and the database after the statement: sqlite3
\* runs the statement, or fails it and changes nothing
Outcomes(c) == {Storage(c), Unchanged(StorageFault, <<>>)}

DbAll(r) ==
  /\ tableExists' = r.tableExists
  /\ table' = r.table
  /\ seq' = r.seq

\* the method returns ret (or throws it) to its caller
Finish(c, ret) ==
  /\ calls' = calls (-) SetToBag({c})
  /\ last' = Returns(c, ret)

Rejected(r) == Ret("throw", <<r.err>>)

generateQrcodeImageUrl(qrcode) ==
  hostScheme \o "://" \o hostName \o "/qrcodes/" \o ToString(qrcode.id) \o "/image"

addImageUrl(qrcode) ==
  [k \in DOMAIN qrcode \cup {"imageUrl"} |->
     IF k = "imageUrl" THEN generateQrcodeImageUrl(qrcode) ELSE qrcode[k]]

generateQrcodeDestinationUrl(qrcode) ==
  hostScheme \o "://" \o hostName \o "/qrcodes/" \o ToString(qrcode.id) \o "/scan"

RECURSIVE MapAddImageUrl(_)
MapAddImageUrl(rows) ==
  IF rows = <<>> THEN <<>> ELSE <<addImageUrl(Head(rows))>> \o MapAddImageUrl(Tail(rows))

Fields(qrcode) ==
  [shopDomain |-> qrcode.shopDomain, title |-> qrcode.title,
   productId |-> qrcode.productId, variantId |-> qrcode.variantId,
   handle |-> qrcode.handle, discountId |-> qrcode.discountId,
   discountCode |-> qrcode.discountCode, destination |-> qrcode.destination]

(***************************************************************************)
(* Initial state: the process has started and no module body has run.  The *)
(* database file is either new or left by an earlier run of the app.       *)
(***************************************************************************)
NoHist ==
  [returnedIds |-> <<>>, supplied |-> [i \in Ids |-> <<>>], updatedIds |-> {},
   redirected |-> [i \in Ids |-> 0], threw |-> [i \in Ids |-> 0],
   creates |-> 0, assigns |-> 0]

EarlierRow == insertRow(1, CHOOSE f \in SampleFields : f.destination = "product")

Init ==
  /\ loaded = FALSE
  /\ instance = FALSE
  /\ \/ tableExists = FALSE /\ table = <<>> /\ seq = 0
     \/ tableExists = TRUE /\ table = <<EarlierRow>> /\ seq = 1
  /\ calls = EmptyBag
  /\ last = NoLast
  /\ hist = NoHist
  /\ ncalls = 0

(***************************************************************************)
(* QRCodesDatastore.init                                                   *)
(***************************************************************************)
\* the synchronous part of init, up to the first await
InitBody ==
  /\ Free
  /\ instance' = TRUE
  /\ hist' = [hist EXCEPT !.assigns = IF instance THEN @ ELSE @ + 1]
  /\ query(TRUE, EmptyBag, Begin("init", 0, <<>>, <<>>), "hasTable")
  /\ UNCHANGED <<tableExists, table, seq>>

\* line 12: QRCodesDatastore.init() in the module body, not awaited
ModuleLoad ==
  /\ ~loaded
  /\ loaded' = TRUE
  /\ InitBody
  /\ UNCHANGED ncalls

InitCall ==
  /\ loaded
  /\ ncalls < MaxCalls
  /\ ncalls' = ncalls + 1
  /\ InitBody
  /\ UNCHANGED loaded

\* __hasQrCodesTable completes; init continues after the await
InitAfterHasTable(c) ==
  /\ Pending(c, "init", "hasTable")
  /\ \E r \in Outcomes(c) :
       /\ DbAll(r)
       /\ IF r.err # "" THEN Finish(c, Rejected(r))
          ELSE IF Len(r.rows) = 1 THEN Finish(c, Ret("void", <<>>))
          ELSE query(instance, SetToBag({c}), c, "createTable")
  /\ UNCHANGED <<loaded, instance, hist, ncalls>>

\* CREATE TABLE completes; init returns
InitReturn(c) ==
  /\ Pending(c, "init", "createTable")
  /\ \E r \in Outcomes(c) :
       /\ DbAll(r)
       /\ Finish(c, IF r.err # "" THEN Rejected(r) ELSE Ret("void", <<>>))
       /\ hist' = [hist EXCEPT !.creates = IF r.err = "" THEN @ + 1 ELSE @]
  /\ UNCHANGED <<loaded, instance, ncalls>>

(***************************************************************************)
(* Store methods: the call                                                 *)
(***************************************************************************)
Call(c, sql) ==
  /\ loaded
  /\ Free
  /\ ncalls < MaxCalls
  /\ query(instance, EmptyBag, c, sql)
  /\ ncalls' = ncalls + 1
  /\ UNCHANGED <<loaded, instance, tableExists, table, seq, hist>>

InsertsInFlight ==
  LET S == {c \in InFlight : c.sql = "insert"}
  IN  BagCardinality([c \in S |-> calls[c]])

CreateCall(f) ==
  /\ seq + InsertsInFlight < MaxId
  /\ Call(Begin("create", 0, <<f>>, <<>>), "insert")

UpdateCall(id, f) == Call(Begin("update", id, <<f>>, <<>>), "update")

ListCall(shop) == Call(Begin("list", 0, <<>>, shop), "selectShop")

ReadCall(id) == Call(Begin("read", id, <<>>, <<>>), "selectId")

DeleteCall(id) == Call(Begin("delete", id, <<>>, <<>>), "delete")

\* handleCodeScan(qrcode) with the record the last read has returned;
\* runs up to await __increaseScanCount(qrcode)
HandleCodeScan ==
  /\ last.op = "read"
  /\ last.ret.kind = "record"
  /\ LET qrcode == last.ret.val[1]
     IN  Call(Begin("scan", qrcode.id, <<qrcode>>, <<>>), "increase")

(***************************************************************************)
(* Store methods: the statement completes and the method returns           *)
(***************************************************************************)
CreateReturn(c) ==
  /\ Pending(c, "create", "insert")
  /\ \E r \in Outcomes(c) :
       /\ DbAll(r)
       /\ IF r.err # ""
          THEN Finish(c, Rejected(r)) /\ UNCHANGED hist
          ELSE LET id == r.rows[1].id
               IN  /\ Finish(c, Ret("id", <<id>>))
                   /\ hist' = [hist EXCEPT !.returnedIds = Append(@, id),
                                           !.supplied[id] = c.qr]
  /\ UNCHANGED <<loaded, instance, ncalls>>

UpdateReturn(c) ==
  /\ Pending(c, "update", "update")
  /\ \E r \in Outcomes(c) :
       /\ DbAll(r)
       /\ Finish(c, IF r.err # "" THEN Rejected(r) ELSE Ret("true", <<>>))
       /\ hist' = [hist EXCEPT !.updatedIds =
                     IF r.err = "" /\ c.id \in DOMAIN table
                     THEN @ \cup {c.id} ELSE @]
  /\ UNCHANGED <<loaded, instance, ncalls>>

ListReturn(c) ==
  /\ Pending(c, "list", "selectShop")
  /\ \E r \in Outcomes(c) :
       /\ DbAll(r)
       /\ Finish(c, IF r.err # "" THEN Rejected(r) ELSE Ret("list", MapAddImageUrl(r.rows)))
  /\ UNCHANGED <<loaded, instance, hist, ncalls>>

readResult(rows) ==
  IF Len(rows) # 1 THEN Ret("undefined", <<>>) ELSE Ret("record", <<addImageUrl(rows[1])>>)

ReadReturn(c) ==
  /\ Pending(c, "read", "selectId")
  /\ \E r \in Outcomes(c) :
       /\ DbAll(r)
       /\ Finish(c, IF r.err # "" THEN Rejected(r) ELSE readResult(r.rows))
  /\ UNCHANGED <<loaded, instance, hist, ncalls>>

DeleteReturn(c) ==
  /\ Pending(c, "delete", "delete")
  /\ \E r \in Outcomes(c) :
       /\ DbAll(r)
       /\ Finish(c, IF r.err # "" THEN Rejected(r) ELSE Ret("true", <<>>))
  /\ UNCHANGED <<loaded, instance, hist, ncalls>>

(***************************************************************************)
(* handleCodeScan after await __increaseScanCount(qrcode)                  *)
(***************************************************************************)
Unrecognized(destination) == "Unrecognized destination \"" \o destination \o "\""

\* variant: the default case falls back to the product view
destinationSwitch_DefaultProduct(url, qrcode) ==
  IF qrcode.destination = "checkout"
    THEN Ret("url", <<goToProductCheckout(url, qrcode)>>)
  ELSE Ret("url", <<goToProductView(url, qrcode)>>)

\* switch (qrcode.destination)
destinationSwitch(url, qrcode) ==
  IF qrcode.destination = "product" THEN Ret("url", <<goToProductView(url, qrcode)>>)
  ELSE IF qrcode.destination = "checkout"
    THEN Ret("url", <<goToProductCheckout(url, qrcode)>>)
  ELSE Ret("throw", <<Unrecognized(qrcode.destination)>>)

\* const url = new URL(qrcode.shopDomain); switch ...
resolveDestination(qrcode) ==
  IF ~URLValid(qrcode.shopDomain) THEN Ret("throw", <<InvalidURL>>)
  ELSE destinationSwitch(URLParse(qrcode.shopDomain), qrcode)

\* await this.__increaseScanCount(qrcode); then the resolution
handleCodeScanResult(r, qrcode) ==
  IF r.err # "" THEN Rejected(r) ELSE resolveDestination(qrcode)

ScanReturn(c) ==
  /\ Pending(c, "scan", "increase")
  /\ \E r \in Outcomes(c) :
       LET ret == handleCodeScanResult(r, c.qr[1])
           id  == c.id
       IN  /\ DbAll(r)
           /\ Finish(c, ret)
           /\ hist' = IF ret.kind = "url"
                        THEN [hist EXCEPT !.redirected[id] = @ + 1]
                      ELSE IF r.err = ""
                        THEN [hist EXCEPT !.threw[id] = @ + 1]
                      ELSE hist
  /\ UNCHANGED <<loaded, instance, ncalls>>

(***************************************************************************)
(* Specification                                                           *)
(***************************************************************************)
Next ==
  \/ ModuleLoad
  \/ InitCall
  \/ \E c \in InFlight : InitAfterHasTable(c)
  \/ \E c \in InFlight : InitReturn(c)
  \/ \E f \in SampleFields : CreateCall(f)
  \/ \E id \in Ids, f \in SampleFields : UpdateCall(id, f)
  \/ \E shop \in ShopDomains : ListCall(shop)
  \/ \E id \in Ids : ReadCall(id)
  \/ \E id \in Ids : DeleteCall(id)
  \/ HandleCodeScan
  \/ \E c \in InFlight : CreateReturn(c)
  \/ \E c \in InFlight : UpdateReturn(c)
  \/ \E c \in InFlight : ListReturn(c)
  \/ \E c \in InFlight : ReadReturn(c)
  \/ \E c \in InFlight : DeleteReturn(c)
  \/ \E c \in InFlight : ScanReturn(c)

Spec == Init /\ [][Next]_vars

(***************************************************************************)
(* SpecScan: the scan flow (read, then handleCodeScan) on a store that     *)
(* holds one record with any field values a create can have supplied.      *)
(***************************************************************************)
InitScan ==
  /\ loaded = TRUE
  /\ instance = TRUE
  /\ tableExists = TRUE
  /\ \E f \in AllFields : table = <<insertRow(1, f)>>
  /\ seq = 1
  /\ calls = EmptyBag
  /\ last = NoLast
  /\ hist = [NoHist EXCEPT !.assigns = 1]
  /\ ncalls = 0

NextScan ==
  \/ \E id \in Ids : ReadCall(id)
  \/ \E c \in InFlight : ReadReturn(c)
  \/ HandleCodeScan
  \/ \E c \in InFlight : ScanReturn(c)

SpecScan == InitScan /\ [][NextScan]_vars

(***************************************************************************)
(* Vocabulary of the properties                                            *)
(***************************************************************************)
StorageErrors == {StorageFault, NoSuchTable, NoInstance}

\* the call that returned most recently was a call of op
Returned(op) == last.op = op

FailedInStorage(l) == l.ret.kind = "throw" /\ l.ret.val[1] \in StorageErrors

\* the last call returned is a handleCodeScan of record id whose increment completed
ScanCounted(id) == Returned("scan") /\ last.id = id /\ ~FailedInStorage(last)

ScanInFlight(id) == \E c \in InFlight : c.op = "scan" /\ c.id = id

\* the statement of call c completes in this step and the method returns
Completes(c, op) ==
  /\ c.op = op
  /\ calls' = calls (-) SetToBag({c})
  /\ BagCardinality(calls') < BagCardinality(calls)

WellFormedVariantId(toks) ==
  /\ Len(toks) >= 2
  /\ toks[1] = GidPrefix
  /\ \A i \in 2..Len(toks) : toks[i] \in Digits

ExpectedCartURL(qrcode) ==
  Str(qrcode.shopDomain) \o "/cart/" \o Str(Tail(qrcode.variantId)) \o ":1"
    \o (IF qrcode.discountCode # "" THEN "?discount=" \o qrcode.discountCode ELSE "")

(***************************************************************************)
(* C1.  Concurrent scan-count increments of one record lose no update:     *)
(* every increment that completes adds exactly 1 to the value stored at    *)
(* that moment, whatever value its caller started from, and once no        *)
(* increment on the record is in flight, scans is exactly the number of    *)
(* increments completed on it.                                             *)
(***************************************************************************)
C1_NoLostIncrement ==
  /\ [](\A id \in DOMAIN table :
          /\ ~ScanInFlight(id) => table[id].scans = hist.redirected[id] + hist.threw[id]
          /\ ScanCounted(id) => table[id].scans >= last.qr[1].scans + 1)
  /\ [][\A c \in InFlight :
          (/\ Completes(c, "scan")
           /\ ~FailedInStorage(last')
           /\ c.id \in DOMAIN table)
          => table'[c.id].scans = table[c.id].scans + 1]_vars

\* a scan that started from the record with scans = 0 has completed and
\* scans is 2: another scan of the record completed in between
C1_Witness ==
  \E id \in DOMAIN table :
    /\ ScanCounted(id)
    /\ last.qr[1].scans = 0
    /\ table[id].scans = 2

(***************************************************************************)
(* C2.  A failure of the scan-count increment does not block the           *)
(* redirect: every handleCodeScan of a record with destination product or  *)
(* checkout, a shop domain that parses and a well-formed variant id        *)
(* returns a URL.                                                          *)
(***************************************************************************)
C2_IncrementFailureDoesNotBlock ==
  (/\ Returned("scan")
   /\ last.qr[1].destination \in {"product", "checkout"}
   /\ URLValid(last.qr[1].shopDomain)
   /\ WellFormedVariantId(last.qr[1].variantId))
  => last.ret.kind = "url"

(***************************************************************************)
(* C3 (as stated).  The scans value of every stored record equals the      *)
(* number of handleCodeScan calls on it that returned a redirect URL.      *)
(***************************************************************************)
C3_ScansEqualRedirects ==
  \A id \in DOMAIN table : table[id].scans = hist.redirected[id]

(***************************************************************************)
(* C3 (amended).  The scans value of every stored record never decreases   *)
(* from one state to the next and equals the number of handleCodeScan      *)
(* calls on it whose increment completed: the calls that returned a        *)
(* redirect URL plus the calls that failed afterwards in destination       *)
(* resolution.  create, update and delete leave it unchanged.              *)
(***************************************************************************)
C3_ScansCountCompletedIncrements ==
  /\ [](\A id \in DOMAIN table :
          /\ table[id].scans = hist.redirected[id] + hist.threw[id]
          /\ table[id].scans >= hist.redirected[id])
  /\ [][\A id \in DOMAIN table \cap DOMAIN table' :
          /\ table'[id].scans >= table[id].scans
          /\ (\A c \in InFlight : ~Completes(c, "scan")) => table'[id].scans = table[id].scans]_vars

\* an updated record has been scanned, the scan failed in destination
\* resolution and the counter has counted it
C3_Witness ==
  \E id \in DOMAIN table :
    /\ id \in hist.updatedIds
    /\ hist.threw[id] >= 1
    /\ table[id].scans >= 1
    /\ ScanCounted(id) /\ last.ret.kind = "throw"

(***************************************************************************)
(* C4 (as stated).  For a record whose destination is neither product nor  *)
(* checkout, destination resolution ends in an error that carries the      *)
(* destination value, and never in a URL.                                  *)
(***************************************************************************)
C4_UnrecognizedCarriesDestination ==
  (Returned("scan") /\ last.qr[1].destination \notin {"product", "checkout"}) =>
    /\ last.ret.kind = "throw"
    /\ ~FailedInStorage(last) => last.ret.val[1] = Unrecognized(last.qr[1].destination)

(***************************************************************************)
(* C4 (amended).  For a record whose destination is neither product nor    *)
(* checkout, handleCodeScan never returns a URL; when the record's shop    *)
(* domain parses as a URL, destination resolution ends in the error        *)
(* Unrecognized destination "<value>" carrying the destination value.      *)
(***************************************************************************)
C4_UnrecognizedNeverRedirects ==
  (Returned("scan") /\ last.qr[1].destination \notin {"product", "checkout"}) =>
    /\ last.ret.kind = "throw"
    /\ (~FailedInStorage(last) /\ URLValid(last.qr[1].shopDomain)) =>
         last.ret.val[1] = Unrecognized(last.qr[1].destination)

C4_Witness ==
  /\ Returned("scan")
  /\ last.qr[1].destination = "banana"
  /\ URLValid(last.qr[1].shopDomain)
  /\ last.ret = Ret("throw", <<"Unrecognized destination \"banana\"">>)

(***************************************************************************)
(* C5.  update with an id that was never created fails instead of          *)
(* reporting success.                                                      *)
(***************************************************************************)
C5_UpdateMissingFails ==
  (Returned("update") /\ last.id > seq) => last.ret.kind = "throw"

(***************************************************************************)
(* C6.  For a record with destination checkout (shop domain parses,        *)
(* increment completed): a variant id that is not                          *)
(* gid://shopify/ProductVariant/<digits> ends in an error and never in a   *)
(* cart URL; a variant id with digits d yields <shopHost>/cart/d:1, with   *)
(* ?discount=<code> appended exactly when a discount code is present.      *)
(***************************************************************************)
C6_CheckoutURLOrMalformed ==
  (/\ Returned("scan")
   /\ ~FailedInStorage(last)
   /\ last.qr[1].destination = "checkout"
   /\ URLValid(last.qr[1].shopDomain))
  => IF WellFormedVariantId(last.qr[1].variantId)
     THEN last.ret = Ret("url", <<ExpectedCartURL(last.qr[1])>>)
     ELSE last.ret.kind = "throw"

(***************************************************************************)
(* C7.  create returns an identifier different from every identifier an    *)
(* earlier create returned (deleted ones included); the new record has     *)
(* scans = 0 and the fields supplied; a read of the identifier before any  *)
(* update returns exactly the supplied fields.                             *)
(***************************************************************************)
C7_CreateFreshIdAndReadBack ==
  /\ [](/\ \A i, j \in 1..Len(hist.returnedIds) :
             i # j => hist.returnedIds[i] # hist.returnedIds[j]
        /\ (Returned("read") /\ last.ret.kind = "record") =>
             LET rec == last.ret.val[1]
             IN  (rec.id \notin hist.updatedIds /\ hist.supplied[rec.id] # <<>>) =>
                   Fields(rec) = hist.supplied[rec.id][1])
  /\ [][\A c \in InFlight :
          (Completes(c, "create") /\ last'.ret.kind = "id") =>
            LET id == last'.ret.val[1]
            IN  /\ \A i \in 1..Len(hist.returnedIds) : hist.returnedIds[i] # id
                /\ id \notin DOMAIN table
                /\ id \in DOMAIN table'
                /\ table'[id].scans = 0
                /\ Fields(table'[id]) = c.qr[1]]_vars

\* a second create, after the first record was deleted, and a read of the
\* new record
C7_Witness ==
  /\ Len(hist.returnedIds) = 2
  /\ hist.returnedIds[1] \notin DOMAIN table
  /\ Returned("read") /\ last.ret.kind = "record"
  /\ last.ret.val[1].id = hist.returnedIds[2]
  /\ last.ret.val[1].scans = 0

(***************************************************************************)
(* C8.  delete(id) never fails because of the id, present or not, and      *)
(* changes no other record; once a record is deleted its id stays absent   *)
(* and read of an absent id returns undefined, not a record or an error;   *)
(* a delete of an absent id leaves the store as it was.                    *)
(***************************************************************************)
C8_DeleteIdempotent ==
  /\ [](/\ Returned("delete") => (last.ret.kind = "true" \/ FailedInStorage(last))
        /\ Returned("read") =>
             (last.ret.kind \in {"record", "undefined"} \/ FailedInStorage(last)))
  /\ [][/\ \A c \in InFlight :
             (Completes(c, "delete") /\ last'.ret.kind = "true") =>
               /\ c.id \notin DOMAIN table'
               /\ \A i \in DOMAIN table \ {c.id} :
                    i \in DOMAIN table' /\ table'[i] = table[i]
               /\ c.id \notin DOMAIN table => table' = table
        /\ \A c \in InFlight :
             (Completes(c, "read") /\ c.id \notin DOMAIN table) =>
               (last'.ret.kind = "undefined" \/ FailedInStorage(last'))
        /\ \A id \in Ids :
             (id <= seq /\ id \notin DOMAIN table) => id \notin DOMAIN table']_vars

\* a stored record has been deleted, the read of its id has returned
\* undefined and another record is still stored
C8_Witness ==
  /\ Returned("read")
  /\ last.ret.kind = "undefined"
  /\ last.id <= seq
  /\ last.id \notin DOMAIN table
  /\ DOMAIN table # {}

(***************************************************************************)
(* C9.  init is idempotent for any number of calls, sequential or          *)
(* overlapping: CREATE TABLE runs only while the table is absent, the      *)
(* table is created at most once and no init call fails on it.             *)
(***************************************************************************)
C9_InitIdempotent ==
  /\ hist.creates <= 1
  /\ Returned("init") => last.ret # Ret("throw", <<AlreadyExists>>)

(***************************************************************************)
(* C10.  No store operation has its query issued before init has set the   *)
(* instance and its handle and the qr_codes table exists, and the instance *)
(* is assigned at most once.                                               *)
(***************************************************************************)
C10_InitializedBeforeUse ==
  /\ hist.assigns <= 1
  /\ \A c \in InFlight :
       c.op # "init" => (instance /\ tableExists)

====
